---- MODULE Spec2Model ----
(***************************************************************************)
(* Model of scan_migration_issues.py: the MigrationScanner that scans a    *)
(* project's pom.xml, Java sources, application.properties/yml and Flyway  *)
(* migration directory for migration issues, and prints a grouped report.  *)
(*                                                                         *)
(* Text is modelled as a sequence of atoms (a token of a pattern, a        *)
(* character of a version, a blank, a line break); "p in s", strip(),      *)
(* startswith(), split() and the version regular expression are computed   *)
(* on these sequences the way Python computes them on characters.          *)
(***************************************************************************)
EXTENDS Integers, Sequences, FiniteSets, TLC

VARIABLES fs, pc, result, out

vars == <<fs, pc, result, out>>

(***************************************************************************)
(* String primitives.                                                      *)
(***************************************************************************)
NL == "\n"

Whitespace == {" ", NL, "\t"}

\* p occurs in s at position i
MatchAt(p, s, i) ==
    /\ i >= 1
    /\ i + Len(p) - 1 <= Len(s)
    /\ \A k \in 1..Len(p) : s[i + k - 1] = p[k]

\* Python: p in s
Contains(p, s) == \E i \in 1..(Len(s) + 1) : MatchAt(p, s, i)

\* Python: s.startswith(p)
StartsWith(s, p) == MatchAt(p, s, 1)

RECURSIVE LStrip(_)
LStrip(s) == IF s # <<>> /\ Head(s) \in Whitespace THEN LStrip(Tail(s)) ELSE s

RECURSIVE RStrip(_)
RStrip(s) ==
    IF s # <<>> /\ s[Len(s)] \in Whitespace THEN RStrip(SubSeq(s, 1, Len(s) - 1)) ELSE s

\* Python: s.strip()
Strip(s) == RStrip(LStrip(s))

RECURSIVE Flatten(_)
Flatten(ss) == IF ss = <<>> THEN <<>> ELSE Head(ss) \o Flatten(Tail(ss))

\* index of the first line break of s, 0 when it has none
FirstNL(s) ==
    IF \E i \in 1..Len(s) : s[i] = NL
    THEN CHOOSE i \in 1..Len(s) : s[i] = NL /\ \A j \in 1..(i - 1) : s[j] # NL
    ELSE 0

\* Python: content.split('\n')
RECURSIVE Split(_)
Split(s) ==
    IF FirstNL(s) = 0 THEN <<s>>
    ELSE <<SubSeq(s, 1, FirstNL(s) - 1)>> \o Split(SubSeq(s, FirstNL(s) + 1, Len(s)))

\* Python: f.readlines(), every line keeping its line break
RECURSIVE ReadLines(_)
ReadLines(s) ==
    IF s = <<>> THEN <<>>
    ELSE IF FirstNL(s) = 0 THEN <<s>>
    ELSE <<SubSeq(s, 1, FirstNL(s))>> \o ReadLines(SubSeq(s, FirstNL(s) + 1, Len(s)))

\* Python: sep.join(lines)
RECURSIVE Join(_, _)
Join(lines, sep) ==
    IF lines = <<>> THEN <<>>
    ELSE IF Len(lines) = 1 THEN lines[1]
    ELSE lines[1] \o sep \o Join(Tail(lines), sep)

\* Python: lines[a:b] for 0 <= a, b <= len(lines)
Slice(lines, a, b) == SubSeq(lines, a + 1, b)

Max(a, b) == IF a >= b THEN a ELSE b

Min(a, b) == IF a <= b THEN a ELSE b

(***************************************************************************)
(* Issue and ScanResult.                                                   *)
(***************************************************************************)
Unknown == <<"Unknown">>

Issue(category, severity, file_path, line_number, issue, suggestion) ==
    [category |-> category, severity |-> severity, file_path |-> file_path,
     line_number |-> line_number, issue |-> issue, suggestion |-> suggestion]

ScanResult ==
    [spring_boot_version |-> Unknown, spring_modulith_version |-> Unknown,
     testcontainers_version |-> Unknown, issues |-> <<>>]

add_issues(res, new) == [res EXCEPT !.issues = @ \o new]

(***************************************************************************)
(* _scan_pom                                                               *)
(***************************************************************************)
ProjectPath == "project"

PomPath == "project/pom.xml"

DigitDot == {"0", "1", "2", "3", "4", "5", "6", "7", "8", "9", "."}

\* the maximal run of [\d.] of s from position i on
RECURSIVE DigitRun(_, _)
DigitRun(s, i) ==
    IF i <= Len(s) /\ s[i] \in DigitDot THEN <<s[i]>> \o DigitRun(s, i + 1) ELSE <<>>

\* positions where re.search(tag + r'([\d.]+)') can match
VersionMatches(tag, content) ==
    {i \in 1..Len(content) : MatchAt(tag, content, i)
                              /\ DigitRun(content, i + Len(tag)) # <<>>}

LeftmostOf(S) == CHOOSE i \in S : \A j \in S : i <= j

\* a detection that looks at the first occurrence of the tag only
DetectVersionAtFirstTag(tag, content, old) ==
    LET occ == {i \in 1..Len(content) : MatchAt(tag, content, i)} IN
    IF occ = {} \/ DigitRun(content, LeftmostOf(occ) + Len(tag)) = <<>> THEN old
    ELSE DigitRun(content, LeftmostOf(occ) + Len(tag))

\* re.search(...).group(1), or the field's old value when there is no match
DetectVersion(tag, content, old) ==
    IF VersionMatches(tag, content) = {} THEN old
    ELSE DigitRun(content, LeftmostOf(VersionMatches(tag, content)) + Len(tag))

SpringBootTag == <<"<spring-boot.version>">>

SpringModulithTag == <<"<spring-modulith.version>">>

TestcontainersTag == <<"<testcontainers.version>">>

ArtifactId(a) == <<"<artifactId>", a, "</artifactId>">>

GroupId(g) == <<"<groupId>", g, "</groupId>">>

old_starters ==
    << <<"spring-boot-starter-web", "spring-boot-starter-webmvc">>,
       <<"spring-boot-starter-aop", "spring-boot-starter-aspectj">> >>

tc_old_artifacts == <<"junit-jupiter", "postgresql", "mysql", "localstack", "mongodb">>

\* a window that starts one line earlier
ContextWide(lines, i) ==
    Join(Slice(lines, Max(0, i - 4), Min(Len(lines), i + 2)), <<NL>>)

\* '\n'.join(lines[max(0, i-3):min(len(lines), i+2)]) for the 1-based line number i
Context(lines, i) ==
    Join(Slice(lines, Max(0, i - 3), Min(Len(lines), i + 2)), <<NL>>)

OldStarterIssues(lines) ==
    Flatten([i \in 1..Len(lines) |->
        Flatten([k \in 1..Len(old_starters) |->
            IF Contains(ArtifactId(old_starters[k][1]), lines[i])
            THEN <<Issue("Spring Boot 4 - Dependencies", "CRITICAL", PomPath, i,
                         <<"Old starter: ", old_starters[k][1]>>,
                         <<"Change to: ", old_starters[k][2],
                           " (or use spring-boot-starter-classic for gradual migration)">>)>>
            ELSE <<>>])])

SecurityTestIssues(lines) ==
    Flatten([i \in 1..Len(lines) |->
        IF /\ Contains(ArtifactId("spring-security-test"), lines[i])
           /\ Contains(GroupId("org.springframework.security"), Context(lines, i))
        THEN <<Issue("Spring Boot 4 - Dependencies", "CRITICAL", PomPath, i,
                     <<"Old spring-security-test dependency">>,
                     <<"Change to: spring-boot-starter-security-test">>)>>
        ELSE <<>>])

TestcontainersArtifactIssues(lines) ==
    Flatten([i \in 1..Len(lines) |->
        Flatten([k \in 1..Len(tc_old_artifacts) |->
            IF /\ Contains(ArtifactId(tc_old_artifacts[k]), lines[i])
               /\ Contains(GroupId("org.testcontainers"), Context(lines, i))
            THEN <<Issue("Testcontainers 2.x - Dependencies", "WARNING", PomPath, i,
                         <<"Old Testcontainers artifact: ", tc_old_artifacts[k]>>,
                         <<"Change to: testcontainers-", tc_old_artifacts[k]>>)>>
            ELSE <<>>])])

\* _scan_pom on the text read from pom.xml
scan_pom(content, res) ==
    LET lines == Split(content)
        versions ==
            [res EXCEPT
               !.spring_boot_version = DetectVersion(SpringBootTag, content, @),
               !.spring_modulith_version = DetectVersion(SpringModulithTag, content, @),
               !.testcontainers_version = DetectVersion(TestcontainersTag, content, @)]
    IN  add_issues(versions,
                   OldStarterIssues(lines) \o SecurityTestIssues(lines)
                       \o TestcontainersArtifactIssues(lines))

(***************************************************************************)
(* _scan_java_file                                                         *)
(***************************************************************************)
test_annotation_patterns ==
    << <<"@MockBean", "@MockitoBean">>, <<"@SpyBean", "@MockitoSpyBean">> >>

old_imports ==
    << <<"org.springframework.boot.test.mock.mockito.MockBean",
         "org.springframework.boot.test.mock.mockito.MockitoBean">>,
       <<"org.springframework.boot.test.mock.mockito.SpyBean",
         "org.springframework.boot.test.mock.mockito.MockitoSpyBean">>,
       <<"org.springframework.boot.test.autoconfigure.web.servlet.WebMvcTest",
         "org.springframework.boot.webmvc.test.autoconfigure.WebMvcTest">>,
       <<"org.springframework.boot.autoconfigure.domain.EntityScan",
         "org.springframework.boot.persistence.autoconfigure.EntityScan">>,
       <<"org.springframework.boot.BootstrapRegistry",
         "org.springframework.boot.bootstrap.BootstrapRegistry">>,
       <<"org.springframework.boot.BootstrapContext",
         "org.springframework.boot.bootstrap.BootstrapContext">> >>

tc_old_imports ==
    << <<"org.testcontainers.containers.PostgreSQLContainer",
         "org.testcontainers.postgresql.PostgreSQLContainer">>,
       <<"org.testcontainers.containers.MySQLContainer",
         "org.testcontainers.mysql.MySQLContainer">>,
       <<"org.testcontainers.containers.MongoDBContainer",
         "org.testcontainers.mongodb.MongoDBContainer">>,
       <<"org.testcontainers.containers.localstack.LocalStackContainer",
         "org.testcontainers.localstack.LocalStackContainer">> >>

jackson2_classes ==
    << <<"Jackson2ObjectMapperBuilderCustomizer", "JsonMapperBuilderCustomizer">>,
       <<"@JsonComponent", "@JacksonComponent">> >>

LocalStackService == <<"LocalStackContainer.", "Service">>

ServiceToken == <<"Service">>

EndpointOverride == <<"getEndpointOverride(">>

\* a comment test that also skips the lines starting with '/*'
NotCommentedBlockAware(line) ==
    ~StartsWith(Strip(line), <<"//">>) /\ ~StartsWith(Strip(line), <<"/*">>)

\* not line.strip().startswith('//')
NotCommented(line) == ~StartsWith(Strip(line), <<"//">>)

TestAnnotationIssues(lines, rel_path) ==
    Flatten([i \in 1..Len(lines) |->
        Flatten([k \in 1..Len(test_annotation_patterns) |->
            IF /\ Contains(<<test_annotation_patterns[k][1]>>, lines[i])
               /\ NotCommented(lines[i])
            THEN <<Issue("Spring Boot 4 - Test Annotations", "CRITICAL", rel_path, i,
                         <<"Old test annotation: ", test_annotation_patterns[k][1]>>,
                         <<"Change to: ", test_annotation_patterns[k][2]>>)>>
            ELSE <<>>])])

OldImportIssues(lines, rel_path) ==
    Flatten([i \in 1..Len(lines) |->
        Flatten([k \in 1..Len(old_imports) |->
            IF Contains(<<"import ", old_imports[k][1]>>, lines[i])
            THEN <<Issue("Spring Boot 4 - Package Relocations", "CRITICAL", rel_path, i,
                         <<"Old import: ", old_imports[k][1]>>,
                         <<"Change to: ", old_imports[k][2]>>)>>
            ELSE <<>>])])

TestcontainersImportIssues(lines, rel_path) ==
    Flatten([i \in 1..Len(lines) |->
        Flatten([k \in 1..Len(tc_old_imports) |->
            IF Contains(<<"import ", tc_old_imports[k][1]>>, lines[i])
            THEN <<Issue("Testcontainers 2.x - Package Changes", "CRITICAL", rel_path, i,
                         <<"Old Testcontainers import: ", tc_old_imports[k][1]>>,
                         <<"Change to: ", tc_old_imports[k][2]>>)>>
            ELSE <<>>])])

LocalStackServiceIssues(lines, content, rel_path) ==
    IF Contains(LocalStackService, content)
    THEN Flatten([i \in 1..Len(lines) |->
            IF Contains(LocalStackService, lines[i])
            THEN <<Issue("Testcontainers 2.x - API Changes", "CRITICAL", rel_path, i,
                         <<"LocalStackContainer.Service enum removed">>,
                         <<"Remove .withServices() - services are now auto-detected">>)>>
            ELSE <<>>])
    ELSE <<>>

ResilienceIssues(lines, content, rel_path) ==
    IF Contains(<<"org.springframework.resilience">>, content)
    THEN Flatten([i \in 1..Len(lines) |->
            IF Contains(<<"org.springframework.resilience">>, lines[i])
            THEN <<Issue("Spring Boot 4 - Retry/Resilience", "INFO", rel_path, i,
                         <<"Using org.springframework.resilience annotations">>,
                         <<"Ensure AOP support; if using Spring Retry directly, use org.springframework.retry + explicit version">>)>>
            ELSE <<>>])
    ELSE <<>>

RetryableIssues(lines, content, rel_path) ==
    IF Contains(<<"@Retryable">>, content)
    THEN Flatten([i \in 1..Len(lines) |->
            IF Contains(<<"@Retryable">>, lines[i]) /\ NotCommented(lines[i])
            THEN <<Issue("Spring Boot 4 - Spring Retry", "INFO", rel_path, i,
                         <<"Using @Retryable">>,
                         <<"Ensure spring-retry dependency with explicit version + spring-boot-starter-aspectj">>)>>
            ELSE <<>>])
    ELSE <<>>

Jackson2Issues(lines, rel_path) ==
    Flatten([i \in 1..Len(lines) |->
        Flatten([k \in 1..Len(jackson2_classes) |->
            IF /\ Contains(<<jackson2_classes[k][1]>>, lines[i])
               /\ NotCommented(lines[i])
            THEN <<Issue("Spring Boot 4 - Jackson 3", "CRITICAL", rel_path, i,
                         <<"Old Jackson 2 class: ", jackson2_classes[k][1]>>,
                         <<"Change to Jackson 3: ", jackson2_classes[k][2]>>)>>
            ELSE <<>>])])

GenericTypeIssues(lines, content, rel_path) ==
    IF \/ Contains(<<"PostgreSQLContainer<?>">>, content)
       \/ Contains(<<"MySQLContainer<?>">>, content)
    THEN Flatten([i \in 1..Len(lines) |->
            IF \/ Contains(<<"PostgreSQLContainer<?>">>, lines[i])
               \/ Contains(<<"MySQLContainer<?>">>, lines[i])
            THEN <<Issue("Testcontainers 2.x - Generic Types", "WARNING", rel_path, i,
                         <<"Generic type in Testcontainers container">>,
                         <<"Remove generic type: PostgreSQLContainer<?> -> PostgreSQLContainer">>)>>
            ELSE <<>>])
    ELSE <<>>

\* a line test without the second token
EndpointLineMatchesAnyOverload(line) == Contains(EndpointOverride, line)

\* 'getEndpointOverride(' in line and 'Service' in line
EndpointLineMatches(line) ==
    Contains(EndpointOverride, line) /\ Contains(ServiceToken, line)

EndpointOverrideIssues(lines, content, rel_path) ==
    IF Contains(EndpointOverride, content)
    THEN Flatten([i \in 1..Len(lines) |->
            IF EndpointLineMatches(lines[i])
            THEN <<Issue("Testcontainers 2.x - LocalStack API", "CRITICAL", rel_path, i,
                         <<"getEndpointOverride(Service) deprecated">>,
                         <<"Change to: getEndpoint()">>)>>
            ELSE <<>>])
    ELSE <<>>

\* the Issues _scan_java_file appends for a file that was read
JavaFileIssues(text, rel_path) ==
    LET lines == ReadLines(text)
        content == Flatten(lines)
    IN  TestAnnotationIssues(lines, rel_path)
            \o OldImportIssues(lines, rel_path)
            \o TestcontainersImportIssues(lines, rel_path)
            \o LocalStackServiceIssues(lines, content, rel_path)
            \o ResilienceIssues(lines, content, rel_path)
            \o RetryableIssues(lines, content, rel_path)
            \o Jackson2Issues(lines, rel_path)
            \o GenericTypeIssues(lines, content, rel_path)
            \o EndpointOverrideIssues(lines, content, rel_path)

\* _scan_java_file: a file that cannot be read is reported and skipped
scan_java_file(file, res) ==
    IF ~file.readable THEN res
    ELSE add_issues(res, JavaFileIssues(file.text, file.path))

\* the loop of _scan_java_files ended by the first file that cannot be read
RECURSIVE scan_java_files_stopping(_, _)
scan_java_files_stopping(java_files, res) ==
    IF java_files = <<>> \/ ~Head(java_files).readable THEN res
    ELSE scan_java_files_stopping(Tail(java_files), scan_java_file(Head(java_files), res))

\* _scan_java_files: the loop over the files rglob found, in its order
RECURSIVE scan_java_files(_, _)
scan_java_files(java_files, res) ==
    IF java_files = <<>> THEN res
    ELSE scan_java_files(Tail(java_files), scan_java_file(Head(java_files), res))

(***************************************************************************)
(* _scan_properties and _scan_properties_file                              *)
(***************************************************************************)
PropertiesPath == "src/main/resources/application.properties"

YmlPath == "src/main/resources/application.yml"

old_jackson_props == <<"spring.jackson.read.", "spring.jackson.write.">>

ModulithSchemaKey == <<"spring.modulith.events.jdbc.schema">>

JacksonPropertyIssues(lines, rel_path) ==
    Flatten([i \in 1..Len(lines) |->
        Flatten([k \in 1..Len(old_jackson_props) |->
            IF /\ Contains(<<old_jackson_props[k]>>, lines[i])
               /\ ~StartsWith(Strip(lines[i]), <<"#">>)
            THEN <<Issue("Spring Boot 4 - Configuration", "WARNING", rel_path, i,
                         <<"Old Jackson property: ">> \o Strip(lines[i]),
                         <<"Change spring.jackson.* to spring.jackson.json.*">>)>>
            ELSE <<>>])])

\* a test of the key that ignores the detected version
EventStoreMissingAnyVersion(content, res) == ~Contains(ModulithSchemaKey, content)

\* spring_modulith_version != "Unknown" and not has_modulith_jdbc
EventStoreMissing(content, res) ==
    res.spring_modulith_version # Unknown /\ ~Contains(ModulithSchemaKey, content)

EventStoreIssues(content, rel_path, res) ==
    IF EventStoreMissing(content, res)
    THEN <<Issue("Spring Modulith 2.0 - Configuration", "CRITICAL", rel_path, 0,
                 <<"Missing Spring Modulith event store configuration">>,
                 <<"Add: spring.modulith.events.jdbc.schema=events">>)>>
    ELSE <<>>

scan_properties_file(file, rel_path, res) ==
    IF ~file.readable THEN res
    ELSE LET lines == ReadLines(file.text)
             content == Flatten(lines)
         IN  add_issues(res, JacksonPropertyIssues(lines, rel_path)
                                 \o EventStoreIssues(content, rel_path, res))

\* _scan_properties: application.properties, then application.yml, each if it exists
scan_properties(tree, res) ==
    LET r1 == IF tree.properties.exists
              THEN scan_properties_file(tree.properties, PropertiesPath, res) ELSE res
    IN  IF tree.yml.exists THEN scan_properties_file(tree.yml, YmlPath, r1) ELSE r1

(***************************************************************************)
(* _scan_flyway_migrations                                                 *)
(***************************************************************************)
EventsGlob == <<"V0__", "*", "events", "*", ".sql">>

\* fnmatch of a name against a pattern whose "*" matches any run of atoms
RECURSIVE GlobMatch(_, _)
GlobMatch(p, n) ==
    IF p = <<>> THEN n = <<>>
    ELSE IF Head(p) = "*"
         THEN GlobMatch(Tail(p), n) \/ (n # <<>> /\ GlobMatch(p, Tail(n)))
         ELSE n # <<>> /\ Head(n) = Head(p) /\ GlobMatch(Tail(p), Tail(n))

\* root_migrations.glob("V0__*events*.sql")
events_schema_files(mig) == {f \in mig.files : GlobMatch(EventsGlob, f.name)}

MissingSchemaIssue ==
    Issue("Spring Modulith 2.0 - Database", "CRITICAL",
          "src/main/resources/db/migration/__root/", 0,
          <<"Missing events schema migration">>,
          <<"Create: V0__create_events_schema.sql with 'CREATE SCHEMA events;'">>)

MissingRootDirIssue ==
    Issue("Spring Modulith 2.0 - Database", "CRITICAL",
          "src/main/resources/db/migration/", 0,
          <<"Missing __root directory for events schema migration">>,
          <<"Create: __root/V0__create_events_schema.sql">>)

MissingMigrationDirIssue ==
    Issue("Spring Modulith 2.0 - Database", "CRITICAL",
          "src/main/resources/db/", 0,
          <<"Missing migration directory">>,
          <<"Create: src/main/resources/db/migration">>)

\* two variants of _scan_flyway_migrations: one reports a missing migration
\* directory, one leaves out the version test of the elif branch
scan_flyway_migrations_reporting_root(mig, res) ==
    IF ~mig.root
    THEN IF res.spring_modulith_version # Unknown
         THEN add_issues(res, <<MissingMigrationDirIssue>>) ELSE res
    ELSE IF mig.sub
         THEN IF events_schema_files(mig) = {} /\ res.spring_modulith_version # Unknown
              THEN add_issues(res, <<MissingSchemaIssue>>) ELSE res
         ELSE IF res.spring_modulith_version # Unknown
              THEN add_issues(res, <<MissingRootDirIssue>>) ELSE res

scan_flyway_migrations_any_version(mig, res) ==
    IF ~mig.root THEN res
    ELSE IF mig.sub
         THEN IF events_schema_files(mig) = {} /\ res.spring_modulith_version # Unknown
              THEN add_issues(res, <<MissingSchemaIssue>>) ELSE res
         ELSE add_issues(res, <<MissingRootDirIssue>>)

\* _scan_flyway_migrations
scan_flyway_migrations(mig, res) ==
    IF ~mig.root THEN res
    ELSE IF mig.sub
         THEN IF events_schema_files(mig) = {} /\ res.spring_modulith_version # Unknown
              THEN add_issues(res, <<MissingSchemaIssue>>) ELSE res
         ELSE IF res.spring_modulith_version # Unknown
              THEN add_issues(res, <<MissingRootDirIssue>>) ELSE res

(***************************************************************************)
(* print_report                                                            *)
(***************************************************************************)
\* the code points of the category and severity strings the scanners use
Chars(s) ==
    CASE s = "Spring Boot 4 - Dependencies" ->
           <<83, 112, 114, 105, 110, 103, 32, 66, 111, 111, 116, 32, 52, 32, 45, 32, 68, 101, 112, 101, 110, 100, 101, 110, 99, 105, 101, 115>>
      [] s = "Testcontainers 2.x - Dependencies" ->
           <<84, 101, 115, 116, 99, 111, 110, 116, 97, 105, 110, 101, 114, 115, 32, 50, 46, 120, 32, 45, 32, 68, 101, 112, 101, 110, 100, 101, 110, 99, 105, 101, 115>>
      [] s = "Spring Boot 4 - Test Annotations" ->
           <<83, 112, 114, 105, 110, 103, 32, 66, 111, 111, 116, 32, 52, 32, 45, 32, 84, 101, 115, 116, 32, 65, 110, 110, 111, 116, 97, 116, 105, 111, 110, 115>>
      [] s = "Spring Boot 4 - Package Relocations" ->
           <<83, 112, 114, 105, 110, 103, 32, 66, 111, 111, 116, 32, 52, 32, 45, 32, 80, 97, 99, 107, 97, 103, 101, 32, 82, 101, 108, 111, 99, 97, 116, 105, 111, 110, 115>>
      [] s = "Testcontainers 2.x - Package Changes" ->
           <<84, 101, 115, 116, 99, 111, 110, 116, 97, 105, 110, 101, 114, 115, 32, 50, 46, 120, 32, 45, 32, 80, 97, 99, 107, 97, 103, 101, 32, 67, 104, 97, 110, 103, 101, 115>>
      [] s = "Testcontainers 2.x - API Changes" ->
           <<84, 101, 115, 116, 99, 111, 110, 116, 97, 105, 110, 101, 114, 115, 32, 50, 46, 120, 32, 45, 32, 65, 80, 73, 32, 67, 104, 97, 110, 103, 101, 115>>
      [] s = "Spring Boot 4 - Retry/Resilience" ->
           <<83, 112, 114, 105, 110, 103, 32, 66, 111, 111, 116, 32, 52, 32, 45, 32, 82, 101, 116, 114, 121, 47, 82, 101, 115, 105, 108, 105, 101, 110, 99, 101>>
      [] s = "Spring Boot 4 - Spring Retry" ->
           <<83, 112, 114, 105, 110, 103, 32, 66, 111, 111, 116, 32, 52, 32, 45, 32, 83, 112, 114, 105, 110, 103, 32, 82, 101, 116, 114, 121>>
      [] s = "Spring Boot 4 - Jackson 3" ->
           <<83, 112, 114, 105, 110, 103, 32, 66, 111, 111, 116, 32, 52, 32, 45, 32, 74, 97, 99, 107, 115, 111, 110, 32, 51>>
      [] s = "Testcontainers 2.x - Generic Types" ->
           <<84, 101, 115, 116, 99, 111, 110, 116, 97, 105, 110, 101, 114, 115, 32, 50, 46, 120, 32, 45, 32, 71, 101, 110, 101, 114, 105, 99, 32, 84, 121, 112, 101, 115>>
      [] s = "Testcontainers 2.x - LocalStack API" ->
           <<84, 101, 115, 116, 99, 111, 110, 116, 97, 105, 110, 101, 114, 115, 32, 50, 46, 120, 32, 45, 32, 76, 111, 99, 97, 108, 83, 116, 97, 99, 107, 32, 65, 80, 73>>
      [] s = "Spring Boot 4 - Configuration" ->
           <<83, 112, 114, 105, 110, 103, 32, 66, 111, 111, 116, 32, 52, 32, 45, 32, 67, 111, 110, 102, 105, 103, 117, 114, 97, 116, 105, 111, 110>>
      [] s = "Spring Modulith 2.0 - Configuration" ->
           <<83, 112, 114, 105, 110, 103, 32, 77, 111, 100, 117, 108, 105, 116, 104, 32, 50, 46, 48, 32, 45, 32, 67, 111, 110, 102, 105, 103, 117, 114, 97, 116, 105, 111, 110>>
      [] s = "Spring Modulith 2.0 - Database" ->
           <<83, 112, 114, 105, 110, 103, 32, 77, 111, 100, 117, 108, 105, 116, 104, 32, 50, 46, 48, 32, 45, 32, 68, 97, 116, 97, 98, 97, 115, 101>>
      [] s = "CRITICAL" ->
           <<67, 82, 73, 84, 73, 67, 65, 76>>
      [] s = "WARNING" ->
           <<87, 65, 82, 78, 73, 78, 71>>
      [] s = "INFO" ->
           <<73, 78, 70, 79>>
      [] s = " - " ->
           <<32, 45, 32>>

\* Python's order of str: by code point, a proper prefix first
RECURSIVE StrLess(_, _)
StrLess(a, b) ==
    IF b = <<>> THEN FALSE
    ELSE IF a = <<>> THEN TRUE
    ELSE IF Head(a) # Head(b) THEN Head(a) < Head(b)
    ELSE StrLess(Tail(a), Tail(b))

\* f"{issue.category} - {issue.severity}"
GroupKey(i) == Chars(i.category) \o Chars(" - ") \o Chars(i.severity)

\* the keys of issues_by_category in insertion order
RECURSIVE KeysInOrder(_, _)
KeysInOrder(issues, seen) ==
    IF issues = <<>> THEN seen
    ELSE KeysInOrder(Tail(issues),
                     IF \E k \in 1..Len(seen) : seen[k] = GroupKey(Head(issues))
                     THEN seen ELSE Append(seen, GroupKey(Head(issues))))

\* issues_by_category[key]
IssuesOfKey(issues, key) == SelectSeq(issues, LAMBDA i : GroupKey(i) = key)

\* sorted(keys) for distinct keys
RECURSIVE Sorted(_)
Sorted(keys) ==
    IF keys = <<>> THEN <<>>
    ELSE LET m == CHOOSE k \in 1..Len(keys) :
                      \A j \in 1..Len(keys) : j = k \/ StrLess(keys[k], keys[j])
         IN  <<keys[m]>> \o Sorted(SubSeq(keys, 1, m - 1) \o SubSeq(keys, m + 1, Len(keys)))

\* key.rsplit(' - ', 1)
RSplit(key, sep) ==
    LET at == {i \in 1..Len(key) : MatchAt(sep, key, i)} IN
    IF at = {} THEN <<key>>
    ELSE LET last == CHOOSE i \in at : \A j \in at : j <= i
         IN  <<SubSeq(key, 1, last - 1), SubSeq(key, last + Len(sep), Len(key))>>

severity_icon(severity) ==
    CASE severity = Chars("CRITICAL") -> "red circle"
      [] severity = Chars("WARNING") -> "yellow circle"
      [] severity = Chars("INFO") -> "information"

CountSeverity(issues, severity) ==
    Len(SelectSeq(issues, LAMBDA i : i.severity = severity))

NotPrinted ==
    [printed |-> FALSE, all_clear |-> FALSE,
     summary |-> [critical |-> 0, warning |-> 0, info |-> 0, total |-> 0],
     groups |-> <<>>]

\* the groups in the order the dict inserted them
GroupOrderUnsorted(keys) == keys

\* sorted(issues_by_category.keys())
GroupOrder(keys) == Sorted(keys)

\* what print_report writes for the Issues of the ScanResult
print_report(res) ==
    LET keys == KeysInOrder(res.issues, <<>>)
        order == GroupOrder(keys)
    IN  IF res.issues = <<>>
        THEN [NotPrinted EXCEPT !.printed = TRUE, !.all_clear = TRUE]
        ELSE [printed |-> TRUE, all_clear |-> FALSE,
              summary |-> [critical |-> CountSeverity(res.issues, "CRITICAL"),
                           warning |-> CountSeverity(res.issues, "WARNING"),
                           info |-> CountSeverity(res.issues, "INFO"),
                           total |-> Len(res.issues)],
              groups |-> [g \in 1..Len(order) |->
                  LET parts == RSplit(order[g], Chars(" - "))
                      issues == IssuesOfKey(res.issues, order[g])
                  IN  [icon |-> severity_icon(parts[2]),
                       category |-> parts[1],
                       severity |-> parts[2],
                       count |-> Len(issues),
                       entries |-> issues]]]

(***************************************************************************)
(* Project trees: the inputs of a run.                                     *)
(***************************************************************************)
MaxJavaFiles == 2

MaxMigrationFiles == 2

MaxPomLines == 4

MaxVersionLen == 4

MaxJavaLineLen == 3

SeqsUpTo(S, n) == UNION {[1..k -> S] : k \in 1..n}

AbsentFile == [exists |-> FALSE, readable |-> FALSE, text |-> <<>>]

UnreadableFile == [exists |-> TRUE, readable |-> FALSE, text |-> <<>>]

TextFile(text) == [exists |-> TRUE, readable |-> TRUE, text |-> text]

\* a file whose lines each end with a line break
Lines(ls) == Flatten([i \in 1..Len(ls) |-> ls[i] \o <<NL>>])

PomModulith ==
    TextFile(Join(<< SpringBootTag \o <<"4", ".", "0">>,
                     SpringModulithTag \o <<"2", ".", "0">>,
                     ArtifactId("spring-boot-starter-web"),
                     GroupId("org.testcontainers"),
                     ArtifactId("postgresql") >>, <<NL>>))

PomPlain ==
    TextFile(Join(<< SpringBootTag \o <<"3", ".", "5">>,
                     GroupId("org.springframework.security"),
                     ArtifactId("spring-security-test") >>, <<NL>>))

PomSamples == {AbsentFile, UnreadableFile, PomModulith, PomPlain}

JavaFileSamples ==
    { [path |-> "src/test/java/MockTest.java", readable |-> TRUE,
       text |-> Lines(<< <<"@MockBean">>, <<" ", "//", "@SpyBean">>, <<"@Retryable">> >>)],
      [path |-> "src/test/java/LocalStackTest.java", readable |-> TRUE,
       text |-> Lines(<< <<"PostgreSQLContainer<?>">>,
                         <<"getEndpointOverride(", "LocalStackContainer.", "Service">> >>)],
      [path |-> "src/main/java/Broken.java", readable |-> FALSE, text |-> <<>>] }

\* what rglob can return: the files of the tree in some order
JavaSeqs ==
    {<<>>} \cup {s \in SeqsUpTo(JavaFileSamples, MaxJavaFiles) :
                    \A i, j \in 1..Len(s) : i # j => s[i].path # s[j].path}

ConfigSamples ==
    { AbsentFile, UnreadableFile,
      TextFile(Lines(<< <<"spring.modulith.events.jdbc.schema", "=events">> >>)),
      TextFile(Lines(<< <<"spring.jackson.read.", "x">>, <<"#", "spring.jackson.write.">> >>)) }

MigrationFileSamples ==
    { [path |-> "src/main/resources/db/migration/__root/V0__create_events_schema.sql",
       name |-> <<"V0__", "create_", "events", "_schema", ".sql">>],
      [path |-> "src/main/resources/db/migration/__root/V1__events.sql",
       name |-> <<"V1__", "events", ".sql">>],
      [path |-> "src/main/resources/db/migration/__root/V0__init.sql",
       name |-> <<"V0__", "init", ".sql">>] }

NoMigrationDir == [root |-> FALSE, sub |-> FALSE, files |-> {}]

MigrationStates ==
    { NoMigrationDir, [root |-> TRUE, sub |-> FALSE, files |-> {}] }
        \cup { [root |-> TRUE, sub |-> TRUE, files |-> S] :
                 S \in {T \in SUBSET MigrationFileSamples : Cardinality(T) <= MaxMigrationFiles} }

FullTrees ==
    [pom : PomSamples, java : JavaSeqs, properties : ConfigSamples, yml : ConfigSamples,
     mig : MigrationStates]

BaseTree ==
    [pom |-> AbsentFile, java |-> <<>>, properties |-> AbsentFile, yml |-> AbsentFile,
     mig |-> NoMigrationDir]

CoverTrees == {[BaseTree EXCEPT !.pom = p] : p \in PomSamples}

\* build descriptors for the context window: every arrangement of these lines
PomWindowLines ==
    { ArtifactId("spring-security-test"), GroupId("org.springframework.security"),
      ArtifactId("postgresql"), GroupId("org.testcontainers"), <<"<dependency>">> }

PomWindowTrees ==
    {[BaseTree EXCEPT !.pom = TextFile(Join(ls, <<NL>>))] :
        ls \in SeqsUpTo(PomWindowLines, MaxPomLines)}

\* build descriptors for the version fields: every text over these atoms
VersionAtoms ==
    {"<spring-boot.version>", "<spring-modulith.version>", "<testcontainers.version>",
     "4", ".", "x", NL}

PomVersionTrees ==
    {[BaseTree EXCEPT !.pom = TextFile(text)] : text \in SeqsUpTo(VersionAtoms, MaxVersionLen)}

\* source files for the per-line rules: every line over these atoms, alone or
\* after a first line that already holds a pattern
JavaAtoms ==
    {"getEndpointOverride(", "Service", "LocalStackContainer.", "@MockBean", "@SpyBean",
     "//", "/*", " "}

JavaFirstLines == {<<"@MockBean">>, <<"getEndpointOverride(">>}

JavaLineTexts ==
    {Lines(<<l>>) : l \in SeqsUpTo(JavaAtoms, MaxJavaLineLen)}
        \cup {Lines(<<f, l>>) : f \in JavaFirstLines, l \in SeqsUpTo(JavaAtoms, MaxJavaLineLen)}

FocusPath == "src/test/java/Focus.java"

JavaLineTrees ==
    {[BaseTree EXCEPT !.java = <<[path |-> FocusPath, readable |-> TRUE, text |-> text]>>] :
        text \in JavaLineTexts}

(***************************************************************************)
(* The run: main() calls scan(), whose four stages run in order, and then   *)
(* print_report().                                                          *)
(***************************************************************************)
Start ==
    /\ pc = "pom"
    /\ result = ScanResult
    /\ out = NotPrinted

Init == fs \in FullTrees /\ Start

InitPom == fs \in (PomWindowTrees \cup PomVersionTrees \cup CoverTrees) /\ Start

InitJava == fs \in (JavaLineTrees \cup CoverTrees) /\ Start

\* pom.xml exists and is read
ScanPom ==
    /\ pc = "pom"
    /\ fs.pom.exists
    /\ fs.pom.readable
    /\ result' = scan_pom(fs.pom.text, result)
    /\ pc' = "java"
    /\ UNCHANGED <<fs, out>>

\* pom.xml exists and open() or read() raises: nothing in _scan_pom or scan
\* catches it, the exception leaves scan
ScanPomRaises ==
    /\ pc = "pom"
    /\ fs.pom.exists
    /\ ~fs.pom.readable
    /\ pc' = "raised"
    /\ UNCHANGED <<fs, result, out>>

\* pom.xml not found: a warning, and the scan goes on
PomNotFound ==
    /\ pc = "pom"
    /\ ~fs.pom.exists
    /\ pc' = "java"
    /\ UNCHANGED <<fs, result, out>>

ScanJavaFiles ==
    /\ pc = "java"
    /\ result' = scan_java_files(fs.java, result)
    /\ pc' = "properties"
    /\ UNCHANGED <<fs, out>>

\* a scan that runs the configuration stage first, ahead of the build descriptor
ScanPropertiesBeforePom ==
    /\ pc = "pom"
    /\ result' = scan_properties(fs, result)
    /\ pc' = "flyway"
    /\ UNCHANGED <<fs, out>>

ScanProperties ==
    /\ pc = "properties"
    /\ result' = scan_properties(fs, result)
    /\ pc' = "flyway"
    /\ UNCHANGED <<fs, out>>

ScanFlywayMigrations ==
    /\ pc = "flyway"
    /\ result' = scan_flyway_migrations(fs.mig, result)
    /\ pc' = "report"
    /\ UNCHANGED <<fs, out>>

PrintReport ==
    /\ pc = "report"
    /\ out' = print_report(result)
    /\ pc' = "done"
    /\ UNCHANGED <<fs, result>>

Next ==
    \/ ScanPom
    \/ ScanPomRaises
    \/ PomNotFound
    \/ ScanJavaFiles
    \/ ScanProperties
    \/ ScanFlywayMigrations
    \/ PrintReport

Spec == Init /\ [][Next]_vars

SpecPom == InitPom /\ [][Next]_vars

SpecJava == InitJava /\ [][Next]_vars

(***************************************************************************)
(* scan() as one function of the tree, and the files of a tree.            *)
(***************************************************************************)
\* scan() raises instead of returning
ScanRaises(tree) == tree.pom.exists /\ ~tree.pom.readable

\* the ScanResult scan() returns for a tree on which it does not raise
scan(tree) ==
    scan_flyway_migrations(tree.mig,
        scan_properties(tree,
            scan_java_files(tree.java,
                IF tree.pom.exists THEN scan_pom(tree.pom.text, ScanResult)
                ELSE ScanResult)))

\* the Issues a run over the tree reports
ReportedIssues(tree) == IF ScanRaises(tree) THEN <<>> ELSE scan(tree).issues

\* the files of a tree, each with the path Issues name it by
Files(tree) ==
    (IF tree.pom.exists THEN {[kind |-> "pom", path |-> PomPath]} ELSE {})
        \cup {[kind |-> "java", path |-> tree.java[k].path] : k \in 1..Len(tree.java)}
        \cup (IF tree.properties.exists
              THEN {[kind |-> "properties", path |-> PropertiesPath]} ELSE {})
        \cup (IF tree.yml.exists THEN {[kind |-> "yml", path |-> YmlPath]} ELSE {})
        \cup {[kind |-> "migration", path |-> f.path] : f \in tree.mig.files}

\* the tree without the file f
Delete(tree, f) ==
    CASE f.kind = "pom" -> [tree EXCEPT !.pom = AbsentFile]
      [] f.kind = "java" ->
            [tree EXCEPT !.java = SelectSeq(@, LAMBDA j : j.path # f.path)]
      [] f.kind = "properties" -> [tree EXCEPT !.properties = AbsentFile]
      [] f.kind = "yml" -> [tree EXCEPT !.yml = AbsentFile]
      [] f.kind = "migration" ->
            [tree EXCEPT !.mig.files = {m \in @ : m.path # f.path}]

\* the tree whose source files rglob returns in the opposite order
Reversed(tree) ==
    [tree EXCEPT !.java = [k \in 1..Len(@) |-> @[Len(@) + 1 - k]]]

(***************************************************************************)
(* Properties.                                                             *)
(***************************************************************************)
ModulithDetected == result.spring_modulith_version # Unknown

\* the Issues a step appended to the ScanResult
Appended == SubSeq(result'.issues, Len(result.issues) + 1, Len(result'.issues))

KeepsEarlierIssues == SubSeq(result'.issues, 1, Len(result.issues)) = result.issues

FileLevelCritical(i) == i.severity = "CRITICAL" /\ i.line_number = 0

\* a name the claim's pattern V0__*events*.sql describes: it starts with V0__,
\* ends with .sql and has "events" in between
IsEventsSchemaName(n) ==
    /\ Len(n) >= 3
    /\ n[1] = "V0__"
    /\ n[Len(n)] = ".sql"
    /\ \E k \in 2..(Len(n) - 1) : n[k] = "events"

\* C1 as stated: with a spring-modulith version detected and no migration root
\* directory, the migration-directory scan appends exactly one CRITICAL
\* file-level Issue.
C1_MissingRootOneIssue ==
    [][(pc = "flyway" /\ ModulithDetected /\ ~fs.mig.root)
          => /\ KeepsEarlierIssues
             /\ Len(Appended) = 1
             /\ FileLevelCritical(Appended[1])]_vars

\* C1 amended: with a spring-modulith version detected and no migration root
\* directory, the migration-directory scan appends no Issue and leaves the
\* ScanResult as it was.
C1_MissingRootNoIssue ==
    [][(pc = "flyway" /\ ModulithDetected /\ ~fs.mig.root) => result' = result]_vars

C1_Witness ==
    /\ pc = "report"
    /\ ModulithDetected
    /\ ~fs.mig.root
    /\ result.issues # <<>>

\* C2: with the migration root present the scan appends, when a spring-modulith
\* version was detected, exactly the CRITICAL line-0 Issue about the missing
\* __root subdirectory if that is missing, exactly the CRITICAL line-0 Issue
\* about the missing events schema migration if the subdirectory has no file
\* matching V0__*events*.sql, and nothing if it has one; with the version
\* Unknown it appends nothing; and no run of it appends more than one Issue.
C2_RootPresentOutcome ==
    [][pc = "flyway"
          => /\ KeepsEarlierIssues
             /\ Len(Appended) <= 1
             /\ \A k \in 1..Len(Appended) : FileLevelCritical(Appended[k])
             /\ fs.mig.root =>
                  LET matching == \E f \in fs.mig.files : IsEventsSchemaName(f.name) IN
                  /\ ~ModulithDetected => Appended = <<>>
                  /\ (ModulithDetected /\ ~fs.mig.sub) =>
                        /\ Len(Appended) = 1
                        /\ Appended[1].issue =
                              <<"Missing __root directory for events schema migration">>
                  /\ (ModulithDetected /\ fs.mig.sub /\ ~matching) =>
                        /\ Len(Appended) = 1
                        /\ Appended[1].issue = <<"Missing events schema migration">>
                  /\ (ModulithDetected /\ fs.mig.sub /\ matching) => Appended = <<>>]_vars

C2_Witness ==
    /\ pc = "report"
    /\ ModulithDetected
    /\ fs.mig.root
    /\ fs.mig.sub
    /\ fs.mig.files # {}
    /\ ~\E f \in fs.mig.files : IsEventsSchemaName(f.name)
    /\ result.issues[Len(result.issues)].issue = <<"Missing events schema migration">>

\* the 'missing event store configuration' Issues of the run
EventStoreIssuesOf(issues) ==
    SelectSeq(issues, LAMBDA i :
        i.issue = <<"Missing Spring Modulith event store configuration">>)

HasSchemaKey(file) ==
    \E k \in 1..Len(file.text) : file.text[k] = "spring.modulith.events.jdbc.schema"

\* a configuration file that is scanned and does not hold the key

Scanned(file) == file.exists /\ file.readable

\* the project has a configuration that is scanned, and no scanned file of it
\* holds the key
ConfigurationLacksKey ==
    /\ Scanned(fs.properties) \/ Scanned(fs.yml)
    /\ ~(Scanned(fs.properties) /\ HasSchemaKey(fs.properties))
    /\ ~(Scanned(fs.yml) /\ HasSchemaKey(fs.yml))

ScannedLackingKey(file) == Scanned(file) /\ ~HasSchemaKey(file)

\* C3 as stated: after a full scan, a detected spring-modulith version and a
\* scanned configuration without the key give exactly one CRITICAL line-0 event store
\* Issue, and no detected version gives none.
C3_ExactlyOneEventStoreIssue ==
    pc = "done" =>
        /\ (ModulithDetected /\ ConfigurationLacksKey) =>
              /\ Len(EventStoreIssuesOf(result.issues)) = 1
              /\ FileLevelCritical(EventStoreIssuesOf(result.issues)[1])
        /\ ~ModulithDetected => EventStoreIssuesOf(result.issues) = <<>>

\* C3 amended: after a full scan with a spring-modulith version detected, the
\* event store Issues are one CRITICAL line-0 Issue for each configuration
\* file that was scanned and lacks the key, application.properties before
\* application.yml, each under its file's path (none, one or two Issues);
\* with no version detected there is none.
C3_OneIssuePerScannedFile ==
    pc = "done" =>
        LET es == EventStoreIssuesOf(result.issues)
            paths == (IF ScannedLackingKey(fs.properties) THEN <<PropertiesPath>> ELSE <<>>)
                        \o (IF ScannedLackingKey(fs.yml) THEN <<YmlPath>> ELSE <<>>)
        IN  /\ ModulithDetected =>
                  /\ [k \in 1..Len(es) |-> es[k].file_path] = paths
                  /\ \A k \in 1..Len(es) : FileLevelCritical(es[k])
            /\ ~ModulithDetected => es = <<>>

C3_Witness ==
    /\ pc = "done"
    /\ ModulithDetected
    /\ ScannedLackingKey(fs.properties)
    /\ ScannedLackingKey(fs.yml)
    /\ Len(EventStoreIssuesOf(result.issues)) = 2

\* C4: no exception leaves scan: whichever input file cannot be read, the run
\* never ends with an exception raised out of scan.
C4_NoExceptionLeavesScan == pc # "raised"

\* the three version keys: the atom of the tag, and the field's value
VersionKeys == {"spring-boot", "spring-modulith", "testcontainers"}

TagAtom(key) ==
    CASE key = "spring-boot" -> "<spring-boot.version>"
      [] key = "spring-modulith" -> "<spring-modulith.version>"
      [] key = "testcontainers" -> "<testcontainers.version>"

VersionField(key) ==
    CASE key = "spring-boot" -> result.spring_boot_version
      [] key = "spring-modulith" -> result.spring_modulith_version
      [] key = "testcontainers" -> result.testcontainers_version

\* the text of the build descriptor the scan read, empty when there is none
PomText == IF fs.pom.exists /\ fs.pom.readable THEN fs.pom.text ELSE <<>>

\* v is the version written at position i of s: the digits and dots from i up
\* to the first atom that is neither
IsVersionAt(v, s, i) ==
    /\ i + Len(v) - 1 <= Len(s)
    /\ \A k \in 1..Len(v) : s[i + k - 1] = v[k] /\ v[k] \in DigitDot
    /\ (i + Len(v) <= Len(s)) => s[i + Len(v)] \notin DigitDot

TagPositions(key) == {i \in 1..Len(PomText) : PomText[i] = TagAtom(key)}

\* the occurrences of the tag that a digit or a dot follows at once
VersionedTagPositions(key) ==
    {i \in TagPositions(key) : i < Len(PomText) /\ PomText[i + 1] \in DigitDot}

\* C5 as stated: after the scan each version field holds the version that
\* follows the first occurrence of its tag (Unknown when no version follows
\* it), and Unknown when the tag does not occur or there is no build descriptor.
C5_VersionAfterFirstTag ==
    pc = "done" =>
        \A key \in VersionKeys :
            IF TagPositions(key) = {} THEN VersionField(key) = Unknown
            ELSE LET first == CHOOSE i \in TagPositions(key) :
                                  \A j \in TagPositions(key) : i <= j
                 IN  \/ VersionField(key) # <<>> /\ IsVersionAt(VersionField(key), PomText, first + 1)
                     \/ /\ VersionField(key) = Unknown
                        /\ (first = Len(PomText) \/ PomText[first + 1] \notin DigitDot)

\* C5 amended: after the scan each version field holds the run of digits and
\* dots that follows the first occurrence of its tag which a digit or a dot
\* follows at once (occurrences followed by anything else are passed over),
\* and Unknown when there is no such occurrence or no build descriptor.
C5_VersionAfterFirstVersionedTag ==
    pc = "done" =>
        \A key \in VersionKeys :
            IF VersionedTagPositions(key) = {} THEN VersionField(key) = Unknown
            ELSE LET first == CHOOSE i \in VersionedTagPositions(key) :
                                  \A j \in VersionedTagPositions(key) : i <= j
                 IN  /\ VersionField(key) # <<>>
                     /\ IsVersionAt(VersionField(key), PomText, first + 1)

C5_Witness ==
    /\ pc = "done"
    /\ Len(PomText) >= 4
    /\ PomText[1] = "<spring-modulith.version>"
    /\ PomText[2] = "x"
    /\ PomText[3] = "<spring-modulith.version>"
    /\ result.spring_modulith_version = <<"4">>
    /\ result.spring_boot_version = Unknown

\* a precedes b in the order of strings: at the first position where they
\* differ a has the smaller code point, or a is a proper prefix of b
Precedes(a, b) ==
    \E k \in 1..Len(b) :
        /\ k <= Len(a) + 1
        /\ \A j \in 1..(k - 1) : a[j] = b[j]
        /\ k = Len(a) + 1 \/ a[k] < b[k]

Positions(issues, severity) == {k \in 1..Len(issues) : issues[k].severity = severity}

\* the key string a rendered group stands under
RenderedKey(g) == g.category \o <<32, 45, 32>> \o g.severity

\* C6: a report with a summary states, for CRITICAL, WARNING and INFO, the
\* number of Issues of that severity, and they add up to the printed total,
\* the number of Issues; the Issues of a group are the Issues of the group's
\* own category and severity, all of them and in discovery order, so every
\* Issue stands in exactly one group; the groups follow each other in
\* ascending order of their key strings; and printing leaves the ScanResult
\* unchanged.
C6_ReportProjectsIssues ==
    [][pc = "report"
          => /\ result' = result
             /\ out'.printed
             /\ out'.all_clear <=> result.issues = <<>>
             /\ ~out'.all_clear =>
                  LET s == out'.summary
                      gs == out'.groups
                  IN  /\ s.critical = Cardinality(Positions(result.issues, "CRITICAL"))
                      /\ s.warning = Cardinality(Positions(result.issues, "WARNING"))
                      /\ s.info = Cardinality(Positions(result.issues, "INFO"))
                      /\ s.critical + s.warning + s.info = s.total
                      /\ s.total = Len(result.issues)
                      /\ \A g \in 1..Len(gs) :
                            /\ gs[g].entries # <<>>
                            /\ gs[g].count = Len(gs[g].entries)
                            /\ gs[g].entries =
                                  SelectSeq(result.issues, LAMBDA i :
                                      /\ Chars(i.category) = gs[g].category
                                      /\ Chars(i.severity) = gs[g].severity)
                      /\ \A k \in 1..Len(result.issues) :
                            Cardinality({g \in 1..Len(gs) :
                                \E e \in 1..Len(gs[g].entries) :
                                    gs[g].entries[e] = result.issues[k]}) = 1
                      /\ \A g, h \in 1..Len(gs) :
                            g < h => Precedes(RenderedKey(gs[g]), RenderedKey(gs[h]))]_vars

\* a report of several groups whose order is not the order of discovery
C6_Witness ==
    /\ pc = "done"
    /\ Len(out.groups) >= 4
    /\ out.summary.critical >= 2
    /\ out.summary.warning >= 1
    /\ out.summary.info >= 1
    /\ Chars(result.issues[1].category) # out.groups[1].category

\* the Issues reported for the file of that path, in order
IssuesFor(path, issues) == SelectSeq(issues, LAMBDA i : i.file_path = path)

\* C7 as stated: in a run that completes, the Issues reported for a file F
\* are the ones reported for it with any one other file G deleted from the
\* tree, and the ones reported with the source files scanned in another order.
C7_IndependentOfAnyOtherFile ==
    pc = "done" =>
        \A F \in Files(fs) :
            /\ \A G \in Files(fs) \ {F} :
                  IssuesFor(F.path, result.issues)
                      = IssuesFor(F.path, ReportedIssues(Delete(fs, G)))
            /\ IssuesFor(F.path, result.issues)
                  = IssuesFor(F.path, ReportedIssues(Reversed(fs)))

\* C7 amended: the Issues reported for a file F are the ones reported for it
\* with any one other file G deleted, provided G is not the build descriptor
\* pom.xml, and the ones reported with the source files scanned in another
\* order. (Deleting pom.xml changes the version the configuration scan reads,
\* and with it the event store Issue of a configuration file.)
C7_IndependentOfOtherFilesButPom ==
    pc \in {"done", "raised"} =>
        \A F \in Files(fs) :
            /\ \A G \in Files(fs) \ {F} :
                  G.kind # "pom" =>
                      IssuesFor(F.path, result.issues)
                          = IssuesFor(F.path, ReportedIssues(Delete(fs, G)))
            /\ IssuesFor(F.path, result.issues)
                  = IssuesFor(F.path, ReportedIssues(Reversed(fs)))

\* a completed run over two source files, one of them unreadable, a build
\* descriptor and a configuration file, with Issues for the readable one
C7_Witness ==
    /\ pc = "done"
    /\ Len(fs.java) = 2
    /\ ~fs.java[1].readable
    /\ IssuesFor(fs.java[2].path, result.issues) # <<>>
    /\ fs.pom.exists
    /\ fs.properties.exists
    /\ fs.mig.files # {}

\* the line holds the atom
HasAtom(line, a) == \E k \in 1..Len(line) : line[k] = a

\* the first atom of the line that is not white space is a
TrimmedStartsWith(line, a) ==
    \E k \in 1..Len(line) : line[k] = a /\ \A j \in 1..(k - 1) : line[j] \in Whitespace

\* the source files of the tree that can be read
ReadableJava == {k \in 1..Len(fs.java) : fs.java[k].readable}

\* the Issues of the run for line n of the file of that path
IssuesAt(path, n) ==
    SelectSeq(result.issues, LAMBDA i : i.file_path = path /\ i.line_number = n)

EndpointIssuesAt(path, n) ==
    SelectSeq(IssuesAt(path, n), LAMBDA i :
        i.issue = <<"getEndpointOverride(Service) deprecated">>)

CriticalIssuesAt(path, n) ==
    SelectSeq(IssuesAt(path, n), LAMBDA i : i.severity = "CRITICAL")

\* C8 as stated, read for the lines that hold no test annotation: a source
\* line with getEndpointOverride( and without Service gives no Issue of the
\* deprecated accessor; a source line with both gives exactly one CRITICAL
\* Issue referencing its line number.
C8_ExactlyOneCriticalIssue ==
    pc = "done" =>
        \A f \in ReadableJava :
            LET lines == ReadLines(fs.java[f].text)
                path == fs.java[f].path
            IN  \A n \in 1..Len(lines) :
                    (/\ HasAtom(lines[n], "getEndpointOverride(")
                     /\ ~HasAtom(lines[n], "@MockBean")
                     /\ ~HasAtom(lines[n], "@SpyBean")) =>
                        IF HasAtom(lines[n], "Service")
                        THEN Len(CriticalIssuesAt(path, n)) = 1
                        ELSE EndpointIssuesAt(path, n) = <<>>

\* C8 amended: a source line with getEndpointOverride( and without Service
\* gives no 'getEndpointOverride(Service) deprecated' Issue; a source line
\* with both gives exactly one, CRITICAL, in the LocalStack API category and
\* with its line number. Other rules add their own Issues for the same line:
\* one holding LocalStackContainer.Service gets a second CRITICAL Issue.
C8_ExactlyOneEndpointIssue ==
    pc = "done" =>
        \A f \in ReadableJava :
            LET lines == ReadLines(fs.java[f].text)
                path == fs.java[f].path
            IN  \A n \in 1..Len(lines) :
                    LET es == EndpointIssuesAt(path, n) IN
                    /\ \A k \in 1..Len(es) :
                          /\ es[k].severity = "CRITICAL"
                          /\ es[k].category = "Testcontainers 2.x - LocalStack API"
                    /\ Len(es) = IF /\ HasAtom(lines[n], "getEndpointOverride(")
                                    /\ HasAtom(lines[n], "Service")
                                 THEN 1 ELSE 0

\* a second line with the enum-qualified call, after a first line with the
\* bare accessor: two CRITICAL Issues for line 2, none for line 1
C8_Witness ==
    /\ pc = "done"
    /\ Len(fs.java) = 1
    /\ fs.java[1].text = <<"getEndpointOverride(", NL,
                           "getEndpointOverride(", "LocalStackContainer.", "Service", NL>>
    /\ Len(EndpointIssuesAt(FocusPath, 2)) = 1
    /\ Len(CriticalIssuesAt(FocusPath, 2)) = 2
    /\ IssuesAt(FocusPath, 1) = <<>>

TestAnnotationIssuesAt(path, n) ==
    SelectSeq(IssuesAt(path, n), LAMBDA i :
        i.category = "Spring Boot 4 - Test Annotations")

MockBeanIssuesAt(path, n) ==
    SelectSeq(IssuesAt(path, n), LAMBDA i :
        i.issue = <<"Old test annotation: ", "@MockBean">>)

\* C9 as stated, read for the lines that hold no other test annotation: a
\* source line with @MockBean gives exactly one CRITICAL Issue of the
\* test-annotation category with its line number, unless its trimmed content
\* starts with a comment marker, // or /*, and then it gives none.
C9_CommentMarkersExempt ==
    pc = "done" =>
        \A f \in ReadableJava :
            LET lines == ReadLines(fs.java[f].text)
                path == fs.java[f].path
            IN  \A n \in 1..Len(lines) :
                    (HasAtom(lines[n], "@MockBean") /\ ~HasAtom(lines[n], "@SpyBean")) =>
                        IF \/ TrimmedStartsWith(lines[n], "//")
                           \/ TrimmedStartsWith(lines[n], "/*")
                        THEN TestAnnotationIssuesAt(path, n) = <<>>
                        ELSE /\ Len(TestAnnotationIssuesAt(path, n)) = 1
                             /\ TestAnnotationIssuesAt(path, n)[1].severity = "CRITICAL"

\* C9 amended: a source line with @MockBean whose trimmed content does not
\* start with the line-comment marker // gives exactly one 'Old test
\* annotation: @MockBean' Issue, CRITICAL, of the test-annotation category and
\* with its 1-based line number; a line whose trimmed content starts with //
\* gives none. A block-comment marker /* exempts nothing, and a line that also
\* holds @SpyBean gets a second Issue of the category.
C9_OnlyLineCommentsExempt ==
    pc = "done" =>
        \A f \in ReadableJava :
            LET lines == ReadLines(fs.java[f].text)
                path == fs.java[f].path
            IN  \A n \in 1..Len(lines) :
                    LET ms == MockBeanIssuesAt(path, n) IN
                    /\ \A k \in 1..Len(ms) :
                          /\ ms[k].severity = "CRITICAL"
                          /\ ms[k].category = "Spring Boot 4 - Test Annotations"
                    /\ Len(ms) = IF /\ HasAtom(lines[n], "@MockBean")
                                    /\ ~TrimmedStartsWith(lines[n], "//")
                                 THEN 1 ELSE 0

\* a first line with the annotation, a second with it behind a block-comment
\* marker: an Issue for each
C9_Witness ==
    /\ pc = "done"
    /\ Len(fs.java) = 1
    /\ fs.java[1].text = <<"@MockBean", NL, " ", "/*", "@MockBean", NL>>
    /\ Len(MockBeanIssuesAt(FocusPath, 1)) = 1
    /\ Len(MockBeanIssuesAt(FocusPath, 2)) = 1

\* some line from `before` lines before line n to `after` lines after it, of
\* those the file has, holds the pattern
WindowHolds(lines, n, before, after, pattern) ==
    \E m \in Max(1, n - before)..Min(Len(lines), n + after) : Contains(pattern, lines[m])

PomIssuesAt(n, severity, issue) ==
    SelectSeq(result.issues, LAMBDA i :
        /\ i.file_path = PomPath
        /\ i.line_number = n
        /\ i.severity = severity
        /\ i.issue = issue)

\* line n of the build descriptor gets the spring-security-test Issue and the
\* old Testcontainers artifact Issues exactly when it holds the artifact and
\* the group identifier stands in the window of that many lines before and after
WindowRule(before, after) ==
    pc = "done" =>
        LET lines == Split(PomText) IN
        \A n \in 1..Len(lines) :
            /\ Contains(ArtifactId("spring-security-test"), lines[n]) =>
                  Len(PomIssuesAt(n, "CRITICAL", <<"Old spring-security-test dependency">>))
                      = IF WindowHolds(lines, n, before, after,
                                       GroupId("org.springframework.security"))
                        THEN 1 ELSE 0
            /\ \A k \in 1..Len(tc_old_artifacts) :
                  Contains(ArtifactId(tc_old_artifacts[k]), lines[n]) =>
                      Len(PomIssuesAt(n, "WARNING",
                              <<"Old Testcontainers artifact: ", tc_old_artifacts[k]>>))
                          = IF WindowHolds(lines, n, before, after,
                                           GroupId("org.testcontainers"))
                            THEN 1 ELSE 0

\* C10 as stated: the window of line n is the lines n-3 to n+2.
C10_WindowThreeBefore == WindowRule(3, 2)

\* C10 amended: the window of line n is the lines n-2 to n+2, clipped to the
\* file: the artifact line gets its Issue if and only if the group identifier
\* occurs in the two lines before it, in the line itself or in the two lines
\* after it.
C10_WindowTwoBefore == WindowRule(2, 2)

\* the group identifier three lines before the artifact gives no Issue, the
\* one two lines before another artifact does
C10_Witness ==
    /\ pc = "done"
    /\ fs.pom.readable
    /\ Split(PomText) = << GroupId("org.testcontainers"), <<"<dependency>">>,
                           ArtifactId("spring-security-test"), ArtifactId("postgresql") >>
    /\ result.issues = <<>>

\* the three version fields of a ScanResult
VersionFields(res) ==
    <<res.spring_boot_version, res.spring_modulith_version, res.testcontainers_version>>

\* the version fields as the build-descriptor stage leaves them for this tree
PomVersionFields ==
    IF fs.pom.exists THEN VersionFields(scan_pom(fs.pom.text, ScanResult))
    ELSE VersionFields(ScanResult)

\* the successive positions of a run inside scan: build descriptor, source
\* tree, configuration, migration directory, then the return to main; a run
\* whose build-descriptor stage raises ends in that stage
StageSuccession ==
    {<<"pom", "java">>, <<"pom", "raised">>, <<"java", "properties">>,
     <<"properties", "flyway">>, <<"flyway", "report">>, <<"report", "done">>}

\* C11: the stages of scan run in the fixed order build descriptor, source
\* tree, configuration, migration directory; when the configuration scanner
\* or the migration scanner runs, the build-descriptor stage is over and the
\* version fields hold what it wrote; no step after the build-descriptor
\* stage changes a version field.
C11_StagesInOrder ==
    [][ /\ <<pc, pc'>> \in StageSuccession
        /\ ScanProperties => pc = "properties" /\ pc' = "flyway"
        /\ ScanFlywayMigrations => pc = "flyway" /\ pc' = "report"
        /\ (ScanProperties \/ ScanFlywayMigrations) =>
               VersionFields(result) = PomVersionFields
        /\ pc # "pom" => VersionFields(result') = VersionFields(result) ]_vars

\* a run in which all four stages ran, the build descriptor wrote versions, the
\* source scan reported a file, and both the configuration and the migration scanner acted on
\* the spring-modulith version they read
C11_Witness ==
    /\ pc = "report"
    /\ result.spring_boot_version # Unknown
    /\ ModulithDetected
    /\ VersionFields(result) = PomVersionFields
    /\ EventStoreIssuesOf(result.issues) # <<>>
    /\ \E k \in 1..Len(result.issues) :
           result.issues[k].category = "Spring Modulith 2.0 - Database"
    /\ \E k \in 1..Len(result.issues) : result.issues[k].file_path = "src/test/java/MockTest.java"

====
